---- MODULE Spec2Model ----
(***************************************************************************)
(* A model of whisper_timestamped/transcribe.py: the token / attention     *)
(* accumulator driven by the decoder hooks (Spec), the forced alignment    *)
(* of one segment, perform_word_alignment (SpecAlign), and the timestamp   *)
(* consistency pass, ensure_increasing_positions (SpecEnsure).             *)
(*                                                                         *)
(* Times are integers counted in ticks of 0.005 s, so that a centisecond   *)
(* is 2 ticks and the midpoint of two centisecond values is a whole number *)
(* of ticks.  Tokens are small integers laid out as in the Whisper         *)
(* vocabulary: text tokens, then the control markers, then the timestamp   *)
(* markers from timestamp_begin upwards.                                   *)
(***************************************************************************)
EXTENDS Integers, Sequences, FiniteSets, TLC

(***************************************************************************)
(* Bounds of the model.                                                    *)
(***************************************************************************)
\* The largest frame index, standing for N_FRAMES // 2 = 1500.
MaxFrame == 4
\* The longest run of tokens between the first and the last token of an
\* alignment input of SpecAlign.
MaxMiddle == 2
\* The number of decoder blocks, len(model.decoder.blocks).
NumLayers == 2
\* The number of decoder forward passes of a run of Spec.
MaxSteps == 6

(***************************************************************************)
(* Program constants.                                                      *)
(***************************************************************************)
\* AUDIO_TIME_PER_TOKEN, 0.02 s, in ticks.
AUDIO_TIME_PER_TOKEN == 4
\* The precision of round(x, 2), 0.01 s, in ticks.
Centisecond == 2

\* The vocabulary.  Text tokens: 1 decodes to " a", 2 to "b", 3 to ",",
\* 4 and 5 are the two bytes of one two-byte character.
TokSpaceWord == 1
TokWordPiece == 2
TokPunct == 3
TokByte1 == 4
TokByte2 == 5
\* tokenizer.eot, tokenizer.sot, a task marker of the sot sequence, and
\* tokenizer.timestamp_begin.
token_eot == 6
token_sot == 7
token_task == 8
timestamp_begin == 9

TextTokens == {TokSpaceWord, TokWordPiece, TokPunct, TokByte1, TokByte2}
TimestampTokens == {timestamp_begin + k : k \in 0..MaxFrame}
Vocabulary == TextTokens \cup {token_eot, token_sot, token_task} \cup TimestampTokens

Max(a, b) == IF a >= b THEN a ELSE b
Min(a, b) == IF a <= b THEN a ELSE b
Last(s) == s[Len(s)]
Front(s) == SubSeq(s, 1, Len(s) - 1)

(***************************************************************************)
(* The tokenizer (whisper.tokenizer), as far as the code relies on it.     *)
(* A text is a sequence of characters; "<|t|>" and "<|c|>" stand for the   *)
(* rendering "<|...|>" of a timestamp and of a control marker, and "?"     *)
(* for the replacement character U+FFFD of an incomplete byte sequence.    *)
(***************************************************************************)
RECURSIVE decode_with_timestamps(_)
decode_with_timestamps(toks) ==
    IF toks = <<>> THEN <<>>
    ELSE LET t == Head(toks) IN
         IF t >= timestamp_begin THEN <<"<|t|>">> \o decode_with_timestamps(Tail(toks))
         ELSE IF t >= token_eot THEN <<"<|c|>">> \o decode_with_timestamps(Tail(toks))
         ELSE IF t = TokByte1 /\ Len(toks) >= 2 /\ toks[2] = TokByte2
              THEN <<"e">> \o decode_with_timestamps(Tail(Tail(toks)))
         ELSE IF t \in {TokByte1, TokByte2} THEN <<"?">> \o decode_with_timestamps(Tail(toks))
         ELSE IF t = TokSpaceWord THEN <<" ", "a">> \o decode_with_timestamps(Tail(toks))
         ELSE IF t = TokWordPiece THEN <<"b">> \o decode_with_timestamps(Tail(toks))
         ELSE <<",">> \o decode_with_timestamps(Tail(toks))

\* str.strip()
RECURSIVE lstrip(_)
lstrip(s) == IF s # <<>> /\ Head(s) = " " THEN lstrip(Tail(s)) ELSE s
RECURSIVE rstrip(_)
rstrip(s) == IF s # <<>> /\ Last(s) = " " THEN rstrip(Front(s)) ELSE s
strip(s) == rstrip(lstrip(s))

\* s in _punctuation: s is a substring of the punctuation characters, which
\* the empty string is too.  "," is the one punctuation character of the
\* model's vocabulary.
in_punctuation(s) == s = <<>> \/ s = <<",">>

\* str.startswith("<|") and str.startswith(" ")
startswith_marker(s) == s # <<>> /\ Head(s) \in {"<|t|>", "<|c|>"}
startswith_space(s) == s # <<>> /\ Head(s) = " "

(***************************************************************************)
(* split_tokens_on_unicode, with tokens_as_string = True and               *)
(* isolate_punctuations = False as perform_word_alignment calls it.        *)
(* The loop state is [words, word_tokens, current_tokens].                 *)
(***************************************************************************)
\* The step of the loop with isolate_punctuations = True: a punctuation
\* unit is a word like any other.
unicode_step_isolating_punctuation(st, token, remove_punctuation_from_words) ==
    LET current_tokens == Append(st.current_tokens, token)
        decoded == decode_with_timestamps(current_tokens)
    IN  IF \E i \in 1..Len(decoded) : decoded[i] = "?"
        THEN [st EXCEPT !.current_tokens = current_tokens]
        ELSE [words |-> Append(st.words, decoded),
              word_tokens |-> Append(st.word_tokens, <<strip(decoded)>>),
              current_tokens |-> <<>>]

unicode_step(st, token, remove_punctuation_from_words) ==
    LET current_tokens == Append(st.current_tokens, token)
        decoded == decode_with_timestamps(current_tokens)
    IN  IF \E i \in 1..Len(decoded) : decoded[i] = "?"
        THEN [st EXCEPT !.current_tokens = current_tokens]
        ELSE IF in_punctuation(strip(decoded))
        THEN LET words0 == IF st.words = <<>> THEN << <<>> >> ELSE st.words
                 wtoks0 == IF st.words = <<>> THEN << <<>> >> ELSE st.word_tokens
                 n == Len(words0)
             IN  [words |-> IF remove_punctuation_from_words THEN words0
                            ELSE [words0 EXCEPT ![n] = @ \o decoded],
                  word_tokens |-> [wtoks0 EXCEPT ![n] = Append(@, strip(decoded))],
                  current_tokens |-> <<>>]
        ELSE [words |-> Append(st.words, decoded),
              word_tokens |-> Append(st.word_tokens, <<strip(decoded)>>),
              current_tokens |-> <<>>]

RECURSIVE unicode_loop(_, _, _)
unicode_loop(st, tokens, remove_punctuation_from_words) ==
    IF tokens = <<>> THEN st
    ELSE unicode_loop(unicode_step(st, Head(tokens), remove_punctuation_from_words),
                      Tail(tokens), remove_punctuation_from_words)

split_tokens_on_unicode(tokens, remove_punctuation_from_words) ==
    LET st == unicode_loop([words |-> <<>>, word_tokens |-> <<>>, current_tokens |-> <<>>],
                           tokens, remove_punctuation_from_words)
    IN  [words |-> st.words, word_tokens |-> st.word_tokens, error |-> "none"]

(***************************************************************************)
(* split_tokens_on_spaces, with tokens_as_string = True.  The loop state   *)
(* is [words, word_tokens, error]; i is the 1-based index of the subword.  *)
(***************************************************************************)
spaces_step(st, subwords, subword_tokens_list, i) ==
    LET subword == subwords[i]
        subword_tokens == subword_tokens_list[i]
        special == startswith_marker(subword_tokens[1])
        previous_special == i > 1 /\ startswith_marker(subword_tokens_list[i - 1][1])
        with_space == startswith_space(subword)
        punctuation == in_punctuation(strip(subword))
        n == Len(st.words)
    IN  IF st.error # "none" THEN st
        ELSE IF special \/ (with_space /\ ~punctuation) \/ previous_special
        THEN [st EXCEPT !.words = Append(@, strip(subword)),
                        !.word_tokens = Append(@, subword_tokens)]
        ELSE IF n = 0 THEN [st EXCEPT !.error = "IndexError: list index out of range"]
        ELSE [st EXCEPT !.words[n] = @ \o strip(subword),
                        !.word_tokens[n] = @ \o subword_tokens]

RECURSIVE spaces_loop(_, _, _, _)
spaces_loop(st, subwords, subword_tokens_list, i) ==
    IF i > Len(subwords) THEN st
    ELSE spaces_loop(spaces_step(st, subwords, subword_tokens_list, i),
                     subwords, subword_tokens_list, i + 1)

split_tokens_on_spaces(tokens, remove_punctuation_from_words) ==
    LET sub == split_tokens_on_unicode(tokens, remove_punctuation_from_words)
    IN  spaces_loop([words |-> <<>>, word_tokens |-> <<>>, error |-> "none"],
                    sub.words, sub.word_tokens, 1)

(***************************************************************************)
(* Rounding.  round(x, 2) of a time that is a whole number of centiseconds *)
(* is that time.  A time half-way between two centiseconds goes up or down *)
(* with the binary value of the float, which the model does not compute:   *)
(* round_half_up fixes the direction for a run, chosen freely in Init.     *)
(***************************************************************************)
VARIABLE round_half_up

round2(x) ==
    IF x % Centisecond = 0 THEN x
    ELSE IF round_half_up THEN x + 1 ELSE x - 1

\* The paths of a step pattern that also lets the token index go back by
\* one from a frame to the next.
dtw_token_may_go_back(num_tokens, num_frames) ==
    { p \in [1..num_frames -> 0..(num_tokens - 1)] :
        /\ p[1] = 0 /\ p[num_frames] = num_tokens - 1
        /\ \A f \in 2..num_frames : p[f] - p[f - 1] \in {-1, 0, 1} }

(***************************************************************************)
(* dtw.dtw(weights, step_pattern): the step pattern lets a path go from    *)
(* (token, frame) to (token, frame + 1) or to (token + 1, frame + 1) only. *)
(* Which of these paths is the cheapest depends on the attention weights,  *)
(* which the model does not hold: every path from (0, 0) to                *)
(* (num_tokens - 1, num_frames - 1) is a possible alignment.  A path is    *)
(* its index1s, the token index at each frame; index2s is 0, 1, 2, ...     *)
(***************************************************************************)
dtw(num_tokens, num_frames) ==
    { [f \in 1..num_frames |-> Cardinality({j \in J : j <= f - 1})] :
        J \in {S \in SUBSET (1..(num_frames - 1)) : Cardinality(S) = num_tokens - 1} }

\* jumps = index2s[pad(diff(index1s), (1, 0), 1).astype(bool)]
RECURSIVE jumps_from(_, _)
jumps_from(index1s, f) ==
    IF f > Len(index1s) THEN <<>>
    ELSE (IF f = 1 \/ index1s[f] # index1s[f - 1] THEN <<f - 1>> ELSE <<>>)
         \o jumps_from(index1s, f + 1)

\* np.cumsum([len(t) for t in word_tokens]), padded with a leading 0
RECURSIVE word_boundaries(_, _)
word_boundaries(word_tokens, acc) ==
    IF word_tokens = <<>> THEN <<acc>>
    ELSE <<acc>> \o word_boundaries(Tail(word_tokens), acc + Len(Head(word_tokens)))

\* A tensor of attention weights is [rows |-> the sequence of its rows], one
\* row per token; a Python list of tensors is [list |-> the tensors].
IsTensor(w) == "rows" \in DOMAIN w

\* An outcome holds, with the exception raised or the words returned, the
\* arrays of lines 639-656 when the call got that far: the index1s of the
\* alignment, jump_times,
\* word_boundaries, begin_times0 and end_times0 as lines 650-651 compute
\* them, begin_times and end_times as lines 654-656 leave them.
NoTimes ==
    [index1s |-> <<>>, jump_times |-> <<>>, word_boundaries |-> <<>>, begin_times0 |-> <<>>,
     end_times0 |-> <<>>, begin_times |-> <<>>, end_times |-> <<>>]
Failure(e) == [error |-> e, words |-> <<>>, times |-> NoTimes]
Words(ws) == [error |-> "none", words |-> ws, times |-> NoTimes]

(***************************************************************************)
(* perform_word_alignment: the set of its possible outcomes, each either   *)
(* a list of words [text, start, end] or the error it raises.              *)
(***************************************************************************)
\* The checks of lines 486-498 with the placeholder fallback tested before
\* the start marker; what follows them is left out.
perform_word_alignment_fallback_first(tokens, attention_weights, use_space, refine_whisper_precision_nsamples, add_even_if_missing_end_token, remove_punctuation_from_words) ==
    IF tokens = <<>>
    THEN {Failure("AssertionError: Got unexpected empty sequence of tokens")}
    ELSE IF (Len(tokens) = 1 \/ Last(tokens) < timestamp_begin)
            /\ add_even_if_missing_end_token
    THEN {Words(<< [text |-> <<>>,
                    start |-> round2((tokens[1] - timestamp_begin) * AUDIO_TIME_PER_TOKEN),
                    end |-> round2((Last(tokens) - timestamp_begin) * AUDIO_TIME_PER_TOKEN)] >>)}
    ELSE IF tokens[1] < timestamp_begin
    THEN {Failure("RuntimeError: Missing start token")}
    ELSE {Words(<<>>)}

RECURSIVE perform_word_alignment(_, _, _, _, _, _)
perform_word_alignment(tokens, attention_weights, use_space, refine_whisper_precision_nsamples, add_even_if_missing_end_token, remove_punctuation_from_words) ==
    IF \E i \in DOMAIN attention_weights : ~IsTensor(attention_weights[i])
    THEN {Failure("AttributeError: 'list' object has no attribute 'shape'")}
    ELSE IF \E i \in DOMAIN attention_weights : Len(attention_weights[i].rows) # Len(tokens)
    THEN {Failure("AssertionError: Attention weights have wrong shape")}
    ELSE IF Len(tokens) = 0
    THEN {Failure("AssertionError: Got unexpected empty sequence of tokens")}
    ELSE
    LET start_token0 == tokens[1] - timestamp_begin
        end_token0 == Last(tokens) - timestamp_begin
    IN
    IF start_token0 < 0 THEN {Failure("RuntimeError: Missing start token")}
    ELSE IF Len(tokens) = 1 \/ end_token0 < 0
    THEN IF add_even_if_missing_end_token
         THEN {Words(<< [text |-> <<>>,
                         start |-> round2(start_token0 * AUDIO_TIME_PER_TOKEN),
                         end |-> round2(end_token0 * AUDIO_TIME_PER_TOKEN)] >>)}
         ELSE {Words(<<>>)}
    ELSE IF end_token0 = start_token0 /\ refine_whisper_precision_nsamples = 0
    THEN {Words(<<>>)}
    ELSE
    LET start_token == IF refine_whisper_precision_nsamples > 0
                       THEN Max(start_token0 - refine_whisper_precision_nsamples, 0)
                       ELSE start_token0
        end_token == IF refine_whisper_precision_nsamples > 0
                     THEN Min(end_token0 + refine_whisper_precision_nsamples, MaxFrame)
                     ELSE end_token0
    IN
    IF end_token <= start_token
    THEN {Failure("RuntimeError: Got segment with null or negative duration")}
    ELSE
    LET start_time == start_token * AUDIO_TIME_PER_TOKEN
        end_time == end_token * AUDIO_TIME_PER_TOKEN
        split == IF use_space
                 THEN split_tokens_on_spaces(tokens, remove_punctuation_from_words)
                 ELSE split_tokens_on_unicode(tokens, remove_punctuation_from_words)
        num_tokens == Len(tokens)
        num_frames == end_token - start_token
    IN
    IF split.error # "none" THEN {Failure(split.error)}
    ELSE IF Len(attention_weights) = 0
    THEN {Failure("RuntimeError: torch.cat(): expected a non-empty list of Tensors")}
    ELSE IF num_tokens > num_frames
    THEN perform_word_alignment(
             SubSeq(tokens, 1, num_frames - 1) \o <<Last(tokens)>>,
             [i \in DOMAIN attention_weights |->
                 [list |-> << [rows |-> SubSeq(attention_weights[i].rows, 1, num_frames - 1)],
                              [rows |-> <<Last(attention_weights[i].rows)>>] >>]],
             use_space, refine_whisper_precision_nsamples, TRUE,
             remove_punctuation_from_words)
    ELSE
    LET n_words == Len(split.words)
        wb == word_boundaries(split.word_tokens, 0)
    IN
    IF refine_whisper_precision_nsamples = 0 /\ n_words < 2
    THEN {Failure("IndexError: index 1 is out of bounds")}
    ELSE
    { LET jumps == jumps_from(index1s, 1)
          jump_times == [k \in 1..(Len(jumps) + 1) |->
                            IF k <= Len(jumps) THEN jumps[k] * AUDIO_TIME_PER_TOKEN
                            ELSE end_time - start_time]
          begin_times0 == [k \in 1..n_words |-> jump_times[wb[k] + 1]]
          end_times0 == [k \in 1..n_words |-> jump_times[wb[k + 1] + 1]]
          begin_times == IF refine_whisper_precision_nsamples = 0
                         THEN [begin_times0 EXCEPT ![2] = begin_times0[1]]
                         ELSE begin_times0
          end_times == IF refine_whisper_precision_nsamples = 0
                       THEN [end_times0 EXCEPT ![n_words - 1] = end_times0[n_words]]
                       ELSE end_times0
          kept == SelectSeq([k \in 1..Max(n_words - 2, 0) |-> k + 1],
                            LAMBDA k : ~startswith_marker(split.words[k]))
      IN  [Words([j \in 1..Len(kept) |->
                    [text |-> split.words[kept[j]],
                     start |-> round2(begin_times[kept[j]] + start_time),
                     end |-> round2(end_times[kept[j]] + start_time)]])
             EXCEPT !.times = [index1s |-> index1s, jump_times |-> jump_times, word_boundaries |-> wb,
                               begin_times0 |-> begin_times0, end_times0 |-> end_times0,
                               begin_times |-> begin_times, end_times |-> end_times]]
      : index1s \in dtw(num_tokens, num_frames) }

(***************************************************************************)
(* SpecAlign: perform_word_alignment applied to the token sequences of     *)
(* AlignTokenSeqs, with one attention row per token in every layer, as     *)
(* may_flush_segment passes them.                                          *)
(***************************************************************************)
VARIABLES align_in, align_out

AlignVocabulary == TextTokens \cup {token_eot} \cup TimestampTokens
MiddleTokens == TextTokens \cup {token_eot}
RECURSIVE SeqsUpTo(_, _)
SeqsUpTo(S, n) ==
    IF n = 0 THEN {<<>>}
    ELSE LET shorter == SeqsUpTo(S, n - 1)
         IN  shorter \cup {Append(q, x) : q \in shorter, x \in S}
AlignTokenSeqs ==
    {<<>>} \cup {<<a>> : a \in AlignVocabulary}
    \cup {<<a>> \o m \o <<b>> :
            a \in AlignVocabulary, b \in AlignVocabulary, m \in SeqsUpTo(MiddleTokens, MaxMiddle)}
RefineChoices == {0, 1}
NoInput == [tokens |-> <<>>, use_space |-> FALSE, refine |-> 0, remove_punctuation |-> FALSE]
NoOutput == [error |-> "not called", words |-> <<>>, times |-> NoTimes]

AlignAttention(tokens) ==
    [l \in 1..NumLayers |-> [rows |-> [k \in 1..Len(tokens) |-> k]]]

AlignCall ==
    /\ align_out = NoOutput
    /\ align_out' \in perform_word_alignment(
                         align_in.tokens, AlignAttention(align_in.tokens),
                         align_in.use_space, align_in.refine, TRUE,
                         align_in.remove_punctuation)
    /\ UNCHANGED <<align_in, round_half_up>>

alignVars == <<align_in, align_out>>

(***************************************************************************)
(* ensure_increasing_positions(segments, min_duration).  A segment is      *)
(* [start, end]; the midpoint of two times is a whole number of half       *)
(* ticks.                                                                  *)
(***************************************************************************)
\* round((a + b) / 2, 2)
round2_mean(a, b) ==
    LET s == a + b
    IN  IF s % 2 = 0 THEN round2(s \div 2)
        ELSE IF s % (2 * Centisecond) = 1 THEN (s - 1) \div 2
        ELSE (s + 1) \div 2

\* The iteration of the first loop with a backward adjustment that only
\* takes one centisecond off the end of the previous word and leaves the
\* start of the word where it was.
ensure_step_one_centisecond_back(st, i, min_duration) ==
    IF st.error # "none" THEN st
    ELSE IF st.segments[i].start < st.previous_end /\ i = 1
    THEN [st EXCEPT !.error = "AssertionError: i > 0"]
    ELSE
    LET seg == st.segments[i]
        overlap == seg.start < st.previous_end
        new_start0 == st.previous_end - Centisecond
        backward == overlap /\ ~(new_start0 < st.segments[i - 1].start + min_duration)
        new_start == IF ~overlap \/ backward THEN seg.start ELSE st.previous_end
        new_end == IF seg.end <= new_start + min_duration
                   THEN new_start + min_duration ELSE seg.end
        segments1 == IF backward
                     THEN [st.segments EXCEPT ![i - 1].end = new_start0]
                     ELSE st.segments
    IN  [segments |-> [segments1 EXCEPT ![i] = [@ EXCEPT !.start = new_start, !.end = new_end]],
         previous_end |-> new_end,
         has_modified_backward |-> st.has_modified_backward \/ backward,
         error |-> "none"]

\* The iteration of the first loop that, when the midpoint would leave the
\* previous word too short, leaves the start of the word where it was.
ensure_step_overlap_kept(st, i, min_duration) ==
    IF st.error # "none" THEN st
    ELSE IF st.segments[i].start < st.previous_end /\ i = 1
    THEN [st EXCEPT !.error = "AssertionError: i > 0"]
    ELSE
    LET seg == st.segments[i]
        overlap == seg.start < st.previous_end
        new_start0 == round2_mean(st.previous_end, seg.start)
        backward == overlap /\ ~(new_start0 < st.segments[i - 1].start + min_duration)
        new_start == IF backward THEN new_start0 ELSE seg.start
        new_end == IF seg.end <= new_start + min_duration
                   THEN new_start + min_duration ELSE seg.end
        segments1 == IF backward
                     THEN [st.segments EXCEPT ![i - 1].end = new_start0]
                     ELSE st.segments
    IN  [segments |-> [segments1 EXCEPT ![i] = [@ EXCEPT !.start = new_start, !.end = new_end]],
         previous_end |-> new_end,
         has_modified_backward |-> st.has_modified_backward \/ backward,
         error |-> "none"]

\* One iteration of the first loop (lines 754-766), on the loop state
\* [segments, previous_end, has_modified_backward, error].
ensure_step(st, i, min_duration) ==
    IF st.error # "none" THEN st
    ELSE IF st.segments[i].start < st.previous_end /\ i = 1
    THEN [st EXCEPT !.error = "AssertionError: i > 0"]
    ELSE
    LET seg == st.segments[i]
        overlap == seg.start < st.previous_end
        new_start0 == round2_mean(st.previous_end, seg.start)
        backward == overlap /\ ~(new_start0 < st.segments[i - 1].start + min_duration)
        new_start == IF ~overlap THEN seg.start
                     ELSE IF backward THEN new_start0
                     ELSE st.previous_end
        new_end == IF seg.end <= new_start + min_duration
                   THEN new_start + min_duration ELSE seg.end
        segments1 == IF backward
                     THEN [st.segments EXCEPT ![i - 1].end = new_start0]
                     ELSE st.segments
    IN  [segments |-> [segments1 EXCEPT ![i] = [@ EXCEPT !.start = new_start, !.end = new_end]],
         previous_end |-> new_end,
         has_modified_backward |-> st.has_modified_backward \/ backward,
         error |-> "none"]

RECURSIVE ensure_loop(_, _, _)
ensure_loop(st, i, min_duration) ==
    IF i > Len(st.segments) THEN st
    ELSE ensure_loop(ensure_step(st, i, min_duration), i + 1, min_duration)

\* The iteration of the last loop that takes the start of the word one
\* centisecond back after rounding it, without checking the word.
ensure_final_step_start_before(st, i) ==
    IF st.error # "none" THEN st
    ELSE [st EXCEPT !.segments[i].start = round2(@) - Centisecond,
                    !.segments[i].end = round2(@),
                    !.previous_end = round2(st.segments[i].end)]

\* One iteration of the last loop (lines 771-776), on the loop state
\* [segments, previous_end, error].
ensure_final_step(st, i) ==
    IF st.error # "none" THEN st
    ELSE
    LET start == round2(st.segments[i].start)
        end == round2(st.segments[i].end)
        segments1 == [st.segments EXCEPT ![i] = [@ EXCEPT !.start = start, !.end = end]]
    IN  IF ~(start >= st.previous_end)
        THEN [st EXCEPT !.segments = segments1,
                        !.error = "AssertionError: segment coming before the previous finishes"]
        ELSE IF ~(end > start)
        THEN [st EXCEPT !.segments = segments1,
                        !.error = "AssertionError: segment with end <= start"]
        ELSE [st EXCEPT !.segments = segments1, !.previous_end = end]

\* The states of the first loop: before its first iteration, then after
\* each iteration.
RECURSIVE ensure_trace(_, _, _)
ensure_trace(st, i, min_duration) ==
    IF i > Len(st.segments) THEN <<st>>
    ELSE <<st>> \o ensure_trace(ensure_step(st, i, min_duration), i + 1, min_duration)

RECURSIVE ensure_final_loop(_, _)
ensure_final_loop(st, i) ==
    IF i > Len(st.segments) THEN st
    ELSE ensure_final_loop(ensure_final_step(st, i), i + 1)

\* The segments with their times rounded, unchecked and otherwise untouched.
ensure_rounding_only(segments, min_duration) ==
    [error |-> "none", passes |-> 1, first_pass |-> <<>>,
     segments |-> [i \in 1..Len(segments) |->
                      [segments[i] EXCEPT !.start = round2(@), !.end = round2(@)]]]

\* The outcome: the exception raised, if any, the segments as the call
\* leaves them, the number of times the first loop ran (the depth of the
\* recursion of line 768, plus one) and the states the first loop went
\* through in the outermost call.
RECURSIVE ensure_increasing_positions(_, _)
ensure_increasing_positions(segments, min_duration) ==
    LET st0 == [segments |-> segments, previous_end |-> 0,
                has_modified_backward |-> FALSE, error |-> "none"]
        st == ensure_loop(st0, 1, min_duration)
        first_pass == ensure_trace(st0, 1, min_duration)
    IN  IF st.error # "none"
        THEN [error |-> st.error, segments |-> st.segments, passes |-> 1,
              first_pass |-> first_pass]
        ELSE IF st.has_modified_backward
        THEN [ensure_increasing_positions(st.segments, min_duration)
                 EXCEPT !.passes = @ + 1, !.first_pass = first_pass]
        ELSE LET fin == ensure_final_loop(
                            [segments |-> st.segments, previous_end |-> 0, error |-> "none"], 1)
             IN  [error |-> fin.error, segments |-> fin.segments, passes |-> 1,
                  first_pass |-> first_pass]

(***************************************************************************)
(* SpecEnsure: ensure_increasing_positions applied to the word lists of    *)
(* EnsureInputs.  The times of the words are whole centiseconds, as the    *)
(* alignment rounds them; the minimum durations are 0, 0.01 s, 0.015 s     *)
(* and 0.02 s, in ticks.                                                   *)
(***************************************************************************)
VARIABLES ensure_in, ensure_out

\* The longest word list, and the largest time, in centiseconds.
MaxWords == 2
MaxTime == 3

WordTimes == {Centisecond * k : k \in (-1)..MaxTime}
WordSpans == [start : WordTimes, end : WordTimes]
MinDurations == {0, 2, 3, 4}
\* The word list of the spans s; the text of a word is its rank in the list
\* handed to the call, so that no two words of a list have the same text.
WithTexts(s) == [i \in 1..Len(s) |-> [text |-> i, start |-> s[i].start, end |-> s[i].end]]
EnsureInputs == {WithTexts(s) : s \in SeqsUpTo(WordSpans, MaxWords)}
\* The words [0.0, 2.0] and [1.5, 3.0] with the default minimum duration
\* of 0.1 s (line 40).
BoundaryExample ==
    [segments |-> WithTexts(<<[start |-> 0, end |-> 200 * Centisecond],
                              [start |-> 150 * Centisecond, end |-> 300 * Centisecond]>>),
     min_duration |-> 10 * Centisecond]
\* The words [0.0, 1.0] and [1.0, 2.5] with the default minimum duration.
SeparateExample ==
    [segments |-> WithTexts(<<[start |-> 0, end |-> 100 * Centisecond],
                              [start |-> 100 * Centisecond, end |-> 250 * Centisecond]>>),
     min_duration |-> 10 * Centisecond]
NoSegments == [segments |-> <<>>, min_duration |-> 0]
NoResult == [error |-> "not called", segments |-> <<>>, passes |-> 0, first_pass |-> <<>>]

EnsureCall ==
    /\ ensure_out = NoResult
    /\ ensure_out' = ensure_increasing_positions(ensure_in.segments, ensure_in.min_duration)
    /\ UNCHANGED <<ensure_in, round_half_up>>

ensureVars == <<ensure_in, ensure_out>>

(***************************************************************************)
(* SpecSplit: the word segmenter applied to the token sequences of         *)
(* SplitInputs, in either mode, as perform_word_alignment calls it.        *)
(***************************************************************************)
VARIABLES split_in, split_out

\* The longest token sequence given to the segmenter.
MaxTokens == 4

SplitVocabulary == TextTokens \cup {token_eot, timestamp_begin}
SplitInputs == SeqsUpTo(SplitVocabulary, MaxTokens)
NoTokens == [tokens |-> <<>>, use_space |-> FALSE, remove_punctuation |-> FALSE]
NoSplit == [words |-> <<>>, word_tokens |-> <<>>, error |-> "not called"]

\* split_tokens = split_tokens_on_spaces if use_space else
\* split_tokens_on_unicode, and its call.
SplitCall ==
    /\ split_out = NoSplit
    /\ split_out' = IF split_in.use_space
                    THEN split_tokens_on_spaces(split_in.tokens, split_in.remove_punctuation)
                    ELSE split_tokens_on_unicode(split_in.tokens, split_in.remove_punctuation)
    /\ UNCHANGED <<split_in, round_half_up>>

splitVars == <<split_in, split_out>>

(***************************************************************************)
(* The comparison, after the run, of each segment's tokens as the hooks    *)
(* collected them with the tokens the transcription reports for the same   *)
(* segment (lines 395-419): the body of the loop of line 414 for one       *)
(* segment.                                                                *)
(***************************************************************************)
VARIABLES check_in, check_out

MaxSegTokens == 3

\* Line 395.
token_special_idx == Min(token_sot, token_eot)

\* Line 398-399: the first while loop of filter_tokens.
RECURSIVE strip_leading(_)
strip_leading(tokens) ==
    IF Len(tokens) # 0 /\ tokens[1] >= token_special_idx
    THEN strip_leading(Tail(tokens))
    ELSE tokens

\* Lines 400-401: the second while loop of filter_tokens.
RECURSIVE strip_trailing(_)
strip_trailing(tokens) ==
    IF Len(tokens) # 0 /\ Last(tokens) >= token_special_idx
    THEN strip_trailing(Front(tokens))
    ELSE tokens

\* filter_tokens stripping the leading tokens only.
filter_tokens_leading_only(tokens) == strip_leading(tokens)

\* Lines 397-402.
filter_tokens(tokens) == strip_trailing(strip_leading(tokens))

\* Lines 415-419, with the comparison accepting a reported list that is a
\* prefix of the collected one as well.
compare_tokens_either_prefix(token, segment_tokens) ==
    LET timestamped_tokens == filter_tokens(token)
        whisper_tokens == filter_tokens(segment_tokens)
        n == Min(Len(timestamped_tokens), Len(whisper_tokens))
    IN  IF timestamped_tokens # whisper_tokens
        THEN [warned |-> TRUE,
              error |-> IF SubSeq(timestamped_tokens, 1, n) = SubSeq(whisper_tokens, 1, n)
                        THEN "none"
                        ELSE "AssertionError: Got inconsistent segments"]
        ELSE [warned |-> FALSE, error |-> "none"]

\* Lines 415-419: the body of the loop for one segment.
compare_tokens(token, segment_tokens) ==
    LET timestamped_tokens == filter_tokens(token)
        whisper_tokens == filter_tokens(segment_tokens)
    IN  IF timestamped_tokens # whisper_tokens
        THEN [warned |-> TRUE,
              error |-> IF /\ Len(timestamped_tokens) < Len(whisper_tokens)
                           /\ timestamped_tokens =
                                 SubSeq(whisper_tokens, 1, Len(timestamped_tokens))
                        THEN "none"
                        ELSE "AssertionError: Got inconsistent segments"]
        ELSE [warned |-> FALSE, error |-> "none"]

SegmentVocabulary == {TokSpaceWord, TokWordPiece, token_eot, timestamp_begin}
SegmentTokens == SeqsUpTo(SegmentVocabulary, MaxSegTokens)
NoPair == [token |-> <<>>, segment_tokens |-> <<>>]
NoCheck == [warned |-> FALSE, error |-> "not called"]

\* One iteration of the loop of line 414.
CompareSegment ==
    /\ check_out = NoCheck
    /\ check_out' = compare_tokens(check_in.token, check_in.segment_tokens)
    /\ UNCHANGED <<check_in, round_half_up>>

checkVars == <<check_in, check_out>>

(***************************************************************************)
(* The accumulator of transcribe_timestamped: the variables its hooks      *)
(* share.  An optional value is <<>> for None and <<v>> for the value v.   *)
(* Probabilities and log-probabilities are counted in tenths.              *)
(***************************************************************************)
None == <<>>
Some(v) == <<v>>

VARIABLES
    \* the options of the run
    no_speech_threshold, logprob_threshold, refine_whisper_precision_nsamples,
    \* one list of tokens per segment, the last one being the open buffer;
    \* the last aliases + 1 entries of tok_indices are one and the same list
    tok_indices, aliases,
    \* per layer, the attention rows of the open buffer (a row is named by
    \* the forward pass that produced it)
    tok_attweights,
    timestamped_word_segments,
    saw_consecutive_timestamps, index_begin_30sec_chunck,
    sot_index, no_speech_prob, chunk_logprobs, chunk_tokens, chunk_tokens_nosot,
    has_started, num_inference_steps,
    \* where the decoder's forward pass stands: "idle" between passes,
    \* <<"attn", l>> before the cross-attention hook of layer l, "logits"
    \* before the hook on the decoder's output, "done" after the final
    \* flush; and the exception that ended the run, if any
    phase, error,
    \* what the last call of hook_input_tokens / the final flush did
    \* (observation only; the code does not read it)
    ev, window_open

accVars == <<no_speech_threshold, logprob_threshold, refine_whisper_precision_nsamples,
             tok_indices, aliases, tok_attweights, timestamped_word_segments,
             saw_consecutive_timestamps, index_begin_30sec_chunck,
             sot_index, no_speech_prob, chunk_logprobs, chunk_tokens, chunk_tokens_nosot,
             has_started, num_inference_steps, phase, error, ev, window_open>>

\* The nonlocal variables as one record, for the operators below.
State ==
    [tok_indices |-> tok_indices, aliases |-> aliases, tok_attweights |-> tok_attweights,
     timestamped_word_segments |-> timestamped_word_segments,
     saw_consecutive_timestamps |-> saw_consecutive_timestamps,
     index_begin_30sec_chunck |-> index_begin_30sec_chunck,
     sot_index |-> sot_index, no_speech_prob |-> no_speech_prob,
     chunk_logprobs |-> chunk_logprobs, chunk_tokens |-> chunk_tokens,
     chunk_tokens_nosot |-> chunk_tokens_nosot, has_started |-> has_started,
     num_inference_steps |-> num_inference_steps, error |-> error, ev |-> ev]

\* kind: "prompt", "single" or "finalize"; token: the last token passed;
\* flushed: the buffer was handed to the alignment; discarded: reset(False,
\* True) was called instead; added: a word list was appended; filter: the
\* silence filter was evaluated (lines 267-295 were entered); deleted: lines
\* 288-289 were executed; closed: the window counters were reset; returned:
\* perform_word_alignment returned a word list (empty or not).
NoEvent == [kind |-> "none", token |-> 0, flushed |-> FALSE, discarded |-> FALSE,
            added |-> FALSE, filter |-> FALSE, deleted |-> FALSE, closed |-> FALSE,
            returned |-> FALSE]

\* The open buffer, tok_indices[-1].
Buffer(S) == Last(S.tok_indices)

\* A change of the list tok_indices[-1], seen through every entry of
\* tok_indices that is this same list.
SetLast(S, new) ==
    LET n == Len(S.tok_indices)
    IN  [S EXCEPT !.tok_indices = [k \in 1..n |-> IF k >= n - S.aliases THEN new ELSE @[k]]]

EmptyAttention == [l \in 1..NumLayers |-> <<>>]

\* reset keeping the last token but not its attention entries.
reset_without_attention(S, add_segment, keep_last_token) ==
    IF add_segment
    THEN LET buf == Buffer(S)
             n == Len(S.tok_indices)
         IN  IF buf = <<>> THEN [S EXCEPT !.error = "IndexError: list index out of range"]
             ELSE [S EXCEPT
                     !.tok_indices =
                         [k \in 1..(n + 1) |->
                             IF k = n + 1 THEN (IF keep_last_token THEN <<Last(buf)>> ELSE <<>>)
                             ELSE IF k >= n - S.aliases THEN Tail(buf)
                             ELSE @[k]],
                     !.aliases = 0,
                     !.tok_attweights = EmptyAttention]
    ELSE IF Len(Buffer(S)) > 0
    THEN [S EXCEPT !.tok_indices[Len(S.tok_indices)] = <<>>,
                   !.aliases = 0,
                   !.tok_attweights = EmptyAttention]
    ELSE S

\* reset opening the new buffer empty whatever keep_last_token says.
reset_without_last_token(S, add_segment, keep_last_token) ==
    IF add_segment
    THEN LET buf == Buffer(S)
             n == Len(S.tok_indices)
         IN  IF buf = <<>> THEN [S EXCEPT !.error = "IndexError: list index out of range"]
             ELSE [S EXCEPT
                     !.tok_indices =
                         [k \in 1..(n + 1) |->
                             IF k = n + 1 THEN <<>>
                             ELSE IF k >= n - S.aliases THEN Tail(buf)
                             ELSE @[k]],
                     !.aliases = 0,
                     !.tok_attweights = EmptyAttention]
    ELSE IF Len(Buffer(S)) > 0
    THEN [S EXCEPT !.tok_indices[Len(S.tok_indices)] = <<>>,
                   !.aliases = 0,
                   !.tok_attweights = EmptyAttention]
    ELSE S

reset(S, add_segment, keep_last_token) ==
    IF add_segment
    THEN LET buf == Buffer(S)
             n == Len(S.tok_indices)
         IN  IF buf = <<>> THEN [S EXCEPT !.error = "IndexError: list index out of range"]
             ELSE [S EXCEPT
                     !.tok_indices =
                         [k \in 1..(n + 1) |->
                             IF k = n + 1 THEN (IF keep_last_token THEN <<Last(buf)>> ELSE <<>>)
                             ELSE IF k >= n - S.aliases THEN Tail(buf)
                             ELSE @[k]],
                     !.aliases = 0,
                     !.tok_attweights =
                         IF keep_last_token
                         THEN [l \in 1..NumLayers |->
                                 IF @[l] = <<>> THEN <<>> ELSE <<Last(@[l])>>]
                         ELSE EmptyAttention]
    ELSE IF Len(Buffer(S)) > 0
    THEN [S EXCEPT !.tok_indices[Len(S.tok_indices)] = <<>>,
                   !.aliases = 0,
                   !.tok_attweights = EmptyAttention]
    ELSE S

\* must_flush_segment with the decision on a prompt inverted: flush when
\* consecutive timestamps were seen.
must_flush_segment_when_seen(S, curr_tokens) ==
    IF Len(curr_tokens) = 1
    THEN LET last_token == IF Len(Buffer(S)) > 0 THEN Last(Buffer(S)) ELSE 0
             consecutive_timestamps ==
                 curr_tokens[1] >= timestamp_begin /\ last_token >= timestamp_begin
         IN  [res |-> consecutive_timestamps,
              S |-> IF consecutive_timestamps
                    THEN [S EXCEPT !.saw_consecutive_timestamps = TRUE] ELSE S]
    ELSE LET must_flush == S.saw_consecutive_timestamps
             S1 == IF ~must_flush
                   THEN [reset(S, FALSE, TRUE) EXCEPT !.ev.discarded = TRUE]
                   ELSE S
         IN  [res |-> must_flush,
              S |-> [S1 EXCEPT !.saw_consecutive_timestamps = FALSE]]

\* must_flush_segment deciding on the current token alone.
must_flush_segment_current_only(S, curr_tokens) ==
    IF Len(curr_tokens) = 1
    THEN LET consecutive_timestamps == curr_tokens[1] >= timestamp_begin
         IN  [res |-> consecutive_timestamps,
              S |-> IF consecutive_timestamps
                    THEN [S EXCEPT !.saw_consecutive_timestamps = TRUE] ELSE S]
    ELSE LET must_flush == ~S.saw_consecutive_timestamps
             S1 == IF ~must_flush
                   THEN [reset(S, FALSE, TRUE) EXCEPT !.ev.discarded = TRUE]
                   ELSE S
         IN  [res |-> must_flush,
              S |-> [S1 EXCEPT !.saw_consecutive_timestamps = FALSE]]

\* The result and the state it leaves.
must_flush_segment(S, curr_tokens) ==
    IF Len(curr_tokens) = 1
    THEN LET last_token == IF Len(Buffer(S)) > 0 THEN Last(Buffer(S)) ELSE 0
             consecutive_timestamps ==
                 curr_tokens[1] >= timestamp_begin /\ last_token >= timestamp_begin
         IN  [res |-> consecutive_timestamps,
              S |-> IF consecutive_timestamps
                    THEN [S EXCEPT !.saw_consecutive_timestamps = TRUE] ELSE S]
    ELSE LET must_flush == ~S.saw_consecutive_timestamps
             S1 == IF ~must_flush
                   THEN [reset(S, FALSE, TRUE) EXCEPT !.ev.discarded = TRUE]
                   ELSE S
         IN  [res |-> must_flush,
              S |-> [S1 EXCEPT !.saw_consecutive_timestamps = FALSE]]

\* The result (None on a single-token event) and the state it leaves.
get_index_begin_30sec_chunck(S, curr_tokens) ==
    IF Len(curr_tokens) # 1
    THEN [res |-> Some(S.index_begin_30sec_chunck),
          S |-> [S EXCEPT !.index_begin_30sec_chunck = Len(S.tok_indices) - 1]]
    ELSE [res |-> None, S |-> S]

RECURSIVE Sum(_)
Sum(q) == IF q = <<>> THEN 0 ELSE Head(q) + Sum(Tail(q))

CatAttention(S) ==
    [l \in 1..NumLayers |-> [rows |-> Front(S.tok_attweights[l])]]

\* The flush recording a segment whatever the alignment returns.
flush_segment_always_adding(S, r, curr_tokens) ==
    IF r.error # "none" THEN [S EXCEPT !.error = r.error, !.ev.flushed = TRUE]
    ELSE LET add_segment == TRUE
             S1 == [S EXCEPT !.timestamped_word_segments = Append(@, r.words)]
         IN  [reset(S1, add_segment, Len(curr_tokens) = 1)
                 EXCEPT !.ev.flushed = TRUE, !.ev.added = add_segment,
                        !.ev.returned = TRUE]

\* Lines 243-263 of may_flush_segment: the flush, for one outcome r of the
\* alignment.
flush_segment(S, r, curr_tokens) ==
    IF r.error # "none" THEN [S EXCEPT !.error = r.error, !.ev.flushed = TRUE]
    ELSE LET add_segment == Len(r.words) > 0
             S1 == IF add_segment
                   THEN [S EXCEPT !.timestamped_word_segments = Append(@, r.words)]
                   ELSE S
         IN  [reset(S1, add_segment, Len(curr_tokens) = 1)
                 EXCEPT !.ev.flushed = TRUE, !.ev.added = add_segment,
                        !.ev.returned = TRUE]

\* The silence filter deleting every window that closes.
silence_filter_always_deleting(S, i_start) ==
    LET n == Len(S.tok_indices)
    IN  [S EXCEPT
           !.tok_indices = SubSeq(@, 1, Min(i_start, n)) \o <<@[n]>>,
           !.aliases = IF i_start >= n THEN S.aliases + 1
                       ELSE Max(0, i_start - (n - 1 - S.aliases)),
           !.timestamped_word_segments = SubSeq(@, 1, Min(i_start, Len(@))),
           !.chunk_tokens = <<>>, !.chunk_tokens_nosot = <<>>,
           !.chunk_logprobs = <<>>, !.no_speech_prob = None,
           !.ev.closed = TRUE]

\* Lines 267-295 of may_flush_segment: the window that i_start opens is
\* complete.  Every recorded log-probability is finite in the model.
silence_filter(S, i_start) ==
    LET chunck_indices == S.chunk_tokens_nosot \o <<token_eot>>
        logprobs == [k \in 1..Len(chunck_indices) |-> S.chunk_logprobs[k][chunck_indices[k]]]
        \* avg_logprob > logprob_threshold, with avg_logprob = sum / len
        confident == Sum(logprobs) > logprob_threshold[1] * Len(logprobs)
        n == Len(S.tok_indices)
        counters_reset(T) ==
            [T EXCEPT !.chunk_tokens = <<>>, !.chunk_tokens_nosot = <<>>,
                      !.chunk_logprobs = <<>>, !.no_speech_prob = None,
                      !.ev.closed = TRUE]
    IN  IF no_speech_threshold = None THEN counters_reset(S)
        ELSE IF S.no_speech_prob = None
        THEN [S EXCEPT !.error = "TypeError: '>' not supported between NoneType and float"]
        ELSE IF ~(S.no_speech_prob[1] > no_speech_threshold[1]) THEN counters_reset(S)
        ELSE IF logprob_threshold # None /\ Len(S.chunk_logprobs) # Len(chunck_indices)
        THEN [S EXCEPT !.error = "AssertionError: len(chunk_logprobs) != len(chunck_indices)"]
        ELSE IF logprob_threshold # None /\ confident THEN counters_reset(S)
        ELSE IF logprob_threshold = None
        THEN [S EXCEPT !.error = "UnboundLocalError: avg_logprob"]
        ELSE counters_reset(
                 [S EXCEPT
                    !.tok_indices = SubSeq(@, 1, Min(i_start, n)) \o <<@[n]>>,
                    !.aliases = IF i_start >= n THEN S.aliases + 1
                                ELSE Max(0, i_start - (n - 1 - S.aliases)),
                    !.timestamped_word_segments = SubSeq(@, 1, Min(i_start, Len(@))),
                    !.ev.deleted = TRUE])

\* The set of states may_flush_segment can leave: one per outcome of the
\* alignment when the buffer is flushed.  curr_tokens is <<>> for the
\* call without argument that follows model.transcribe.
may_flush_segment(S, curr_tokens) ==
    LET mf == must_flush_segment(S, curr_tokens)
        flushed ==
            IF ~mf.res THEN {mf.S}
            ELSE IF \E l \in 1..NumLayers : Len(mf.S.tok_attweights[l]) <= 1
            THEN {[mf.S EXCEPT
                     !.error = "RuntimeError: torch.cat(): expected a non-empty list of Tensors",
                     !.ev.flushed = TRUE]}
            ELSE {flush_segment(mf.S, r, curr_tokens) :
                    r \in perform_word_alignment(
                              SubSeq(Buffer(mf.S), 2, Len(Buffer(mf.S))), CatAttention(mf.S), TRUE,
                              refine_whisper_precision_nsamples, TRUE, FALSE)}
        close(T) ==
            IF T.error # "none" THEN T
            ELSE LET gi == get_index_begin_30sec_chunck(T, curr_tokens)
                 IN  IF gi.res # None /\ T.has_started
                     THEN silence_filter([gi.S EXCEPT !.ev.filter = TRUE], gi.res[1])
                     ELSE gi.S
    IN  {close(T) : T \in flushed}

\* curr_tokens.tolist().index(tokenizer.sot), 0-based; every prompt holds
\* the sot marker.
index_of_sot(curr_tokens) ==
    (CHOOSE k \in 1..Len(curr_tokens) :
        curr_tokens[k] = token_sot /\ \A j \in 1..(k - 1) : curr_tokens[j] # token_sot) - 1

\* hook_input_tokens: the set of states it can leave.
hook_input_tokens(S, curr_tokens) ==
    LET S0 == [S EXCEPT !.num_inference_steps = @ + 1,
                        !.ev = [NoEvent EXCEPT
                                  !.kind = IF Len(curr_tokens) > 1 THEN "prompt" ELSE "single",
                                  !.token = Last(curr_tokens)]]
        rest(T) ==
            IF T.error # "none" THEN T
            ELSE LET T1 == SetLast(T, Append(Buffer(T), Last(curr_tokens)))
                     T2 == IF Len(curr_tokens) > 1
                           THEN [T1 EXCEPT !.has_started = TRUE,
                                           !.sot_index = IF no_speech_threshold # None
                                                         THEN Some(index_of_sot(curr_tokens))
                                                         ELSE @]
                           ELSE [T1 EXCEPT !.sot_index = None]
                 IN  IF T2.has_started
                     THEN [T2 EXCEPT !.chunk_tokens = Append(@, curr_tokens),
                                     !.chunk_tokens_nosot =
                                         IF Len(curr_tokens) = 1
                                         THEN Append(@, Last(curr_tokens)) ELSE @]
                     ELSE T2
    IN  {rest(T) : T \in may_flush_segment(S0, curr_tokens)}

\* Lines 391-404: the final flush, and the check of the segment counts.
finalize(S) ==
    LET S0 == [S EXCEPT !.ev = [NoEvent EXCEPT !.kind = "finalize"]]
        rest(T) ==
            IF T.error # "none" THEN T
            ELSE LET T1 == [T EXCEPT !.tok_indices = Front(@), !.aliases = 0]
                 IN  IF Len(T1.tok_indices) # Len(T1.timestamped_word_segments)
                     THEN [T1 EXCEPT !.error = "AssertionError: Inconsistent number of segments"]
                     ELSE T1
    IN  {rest(T) : T \in may_flush_segment(S0, <<>>)}

(***************************************************************************)
(* The decoding loop of model.transcribe, which drives the hooks: a        *)
(* forward pass of the decoder on a prompt (several tokens) or on the      *)
(* token sampled last calls hook_input_tokens, then                        *)
(* hook_attention_weights for each block in turn, then hook_output_logits  *)
(* (registered only with a no_speech_threshold).                           *)
(***************************************************************************)
Prompts == { <<TokSpaceWord, token_sot, token_task>> }
StreamTokens == {TokSpaceWord, timestamp_begin, timestamp_begin + MaxFrame - 1}

\* The default no_speech_threshold (0.6) and logprob_threshold (-1.0).
DefaultNoSpeechThreshold == 6
DefaultLogprobThreshold == -10
\* The outputs of the decoder that hook_output_logits may see: the
\* probability of the no-speech marker, and the log-probabilities of the
\* next token.
NoSpeechProbs == {6, 9}
LogprobVectors ==
    { [t \in Vocabulary |-> IF t \in TextTokens THEN -15 ELSE -5],
      [t \in Vocabulary |-> -20] }

At(where, l) == [at |-> where, layer |-> l]

Assign(T) ==
    /\ tok_indices' = T.tok_indices
    /\ aliases' = T.aliases
    /\ tok_attweights' = T.tok_attweights
    /\ timestamped_word_segments' = T.timestamped_word_segments
    /\ saw_consecutive_timestamps' = T.saw_consecutive_timestamps
    /\ index_begin_30sec_chunck' = T.index_begin_30sec_chunck
    /\ sot_index' = T.sot_index
    /\ no_speech_prob' = T.no_speech_prob
    /\ chunk_logprobs' = T.chunk_logprobs
    /\ chunk_tokens' = T.chunk_tokens
    /\ chunk_tokens_nosot' = T.chunk_tokens_nosot
    /\ has_started' = T.has_started
    /\ num_inference_steps' = T.num_inference_steps
    /\ error' = T.error
    /\ ev' = T.ev

options == <<no_speech_threshold, logprob_threshold, refine_whisper_precision_nsamples>>

InputTokens(curr_tokens) ==
    /\ phase.at = "idle" /\ error = "none"
    /\ num_inference_steps < MaxSteps
    /\ \E T \in hook_input_tokens(State, curr_tokens) :
          /\ Assign(T)
          /\ window_open' = IF Len(curr_tokens) > 1 /\ T.error = "none"
                            THEN Len(T.timestamped_word_segments) ELSE window_open
    /\ phase' = At("attn", 0)
    /\ UNCHANGED <<options, round_half_up>>

\* The forward passes that can come next: model.detect_language runs one on
\* the sot marker alone before the first window; every window starts with
\* one on its prompt, followed by one per sampled token.
NextInputs ==
    (IF num_inference_steps = 0 THEN {<<token_sot>>} ELSE {})
    \cup Prompts
    \cup (IF has_started THEN {<<t>> : t \in StreamTokens} ELSE {})

HookInputTokens == \E curr_tokens \in NextInputs : InputTokens(curr_tokens)

\* hook_attention_weights(layer, ins, outs, index), called for the blocks
\* of the decoder in turn: only the last row of the weights is kept.
AttentionWeights ==
    /\ phase.at = "attn" /\ error = "none"
    /\ tok_attweights' = [l \in 1..NumLayers |-> Append(tok_attweights[l], num_inference_steps)]
    /\ phase' = IF no_speech_threshold # None THEN At("logits", 0) ELSE At("idle", 0)
    /\ UNCHANGED <<options, round_half_up, tok_indices, aliases, timestamped_word_segments,
                   saw_consecutive_timestamps, index_begin_30sec_chunck, sot_index,
                   no_speech_prob, chunk_logprobs, chunk_tokens, chunk_tokens_nosot,
                   has_started, num_inference_steps, error, ev, window_open>>

\* The hook that records the log-probabilities of prompt steps only.
hook_output_logits_prompt_only(S, prob, logprobs) ==
    LET S1 == IF S.sot_index # None THEN [S EXCEPT !.no_speech_prob = Some(prob)] ELSE S
    IN  IF S1.has_started /\ S.sot_index # None
        THEN [S1 EXCEPT !.chunk_logprobs = Append(@, logprobs)] ELSE S1

hook_output_logits_every_step(S, prob, logprobs) ==
    LET S1 == [S EXCEPT !.no_speech_prob = Some(prob)]
    IN  IF S1.has_started THEN [S1 EXCEPT !.chunk_logprobs = Append(@, logprobs)] ELSE S1

hook_output_logits(S, prob, logprobs) ==
    LET S1 == IF S.sot_index # None THEN [S EXCEPT !.no_speech_prob = Some(prob)] ELSE S
    IN  IF S1.has_started THEN [S1 EXCEPT !.chunk_logprobs = Append(@, logprobs)] ELSE S1

\* The decoder is as confident on every pass of a window as on the first.
WindowLogprobs == IF chunk_logprobs = <<>> THEN LogprobVectors ELSE {chunk_logprobs[1]}

OutputLogits ==
    /\ phase.at = "logits" /\ error = "none"
    /\ \E prob \in NoSpeechProbs, logprobs \in WindowLogprobs :
          Assign(hook_output_logits(State, prob, logprobs))
    /\ phase' = At("idle", 0)
    /\ UNCHANGED <<options, round_half_up, window_open>>

Finalize ==
    /\ phase.at = "idle" /\ error = "none"
    /\ \E T \in finalize(State) : Assign(T)
    /\ phase' = At("done", 0)
    /\ UNCHANGED <<options, round_half_up, window_open>>

Init ==
    /\ no_speech_threshold \in {None, Some(DefaultNoSpeechThreshold)}
    /\ logprob_threshold \in {None, Some(DefaultLogprobThreshold)}
    \* without a no_speech_threshold the logprob_threshold is never read
    /\ no_speech_threshold = None => logprob_threshold = None
    /\ refine_whisper_precision_nsamples \in RefineChoices
    /\ tok_indices = << <<>> >>
    /\ aliases = 0
    /\ tok_attweights = EmptyAttention
    /\ timestamped_word_segments = <<>>
    /\ saw_consecutive_timestamps = TRUE
    /\ index_begin_30sec_chunck = 0
    /\ sot_index = None
    /\ no_speech_prob = None
    /\ chunk_logprobs = <<>>
    /\ chunk_tokens = <<>>
    /\ chunk_tokens_nosot = <<>>
    /\ has_started = FALSE
    /\ num_inference_steps = 0
    /\ phase = At("idle", 0)
    /\ error = "none"
    /\ ev = NoEvent
    /\ window_open = 0
    /\ round_half_up = FALSE
    /\ align_in = NoInput
    /\ align_out = NoOutput
    /\ ensure_in = NoSegments
    /\ ensure_out = NoResult
    /\ split_in = NoTokens
    /\ split_out = NoSplit
    /\ check_in = NoPair
    /\ check_out = NoCheck

vars == <<round_half_up, alignVars, ensureVars, splitVars, checkVars, accVars>>

Next ==
    \/ HookInputTokens /\ UNCHANGED <<alignVars, ensureVars, splitVars, checkVars>>
    \/ AttentionWeights /\ UNCHANGED <<alignVars, ensureVars, splitVars, checkVars>>
    \/ OutputLogits /\ UNCHANGED <<alignVars, ensureVars, splitVars, checkVars>>
    \/ Finalize /\ UNCHANGED <<alignVars, ensureVars, splitVars, checkVars>>

Spec == Init /\ [][Next]_vars

\* The accumulator as SpecAlign leaves it: untouched.
AccIdle ==
    /\ no_speech_threshold = None /\ logprob_threshold = None
    /\ refine_whisper_precision_nsamples = 0
    /\ tok_indices = << <<>> >> /\ aliases = 0 /\ tok_attweights = EmptyAttention
    /\ timestamped_word_segments = <<>> /\ saw_consecutive_timestamps = TRUE
    /\ index_begin_30sec_chunck = 0 /\ sot_index = None /\ no_speech_prob = None
    /\ chunk_logprobs = <<>> /\ chunk_tokens = <<>> /\ chunk_tokens_nosot = <<>>
    /\ has_started = FALSE /\ num_inference_steps = 0 /\ phase = At("idle", 0)
    /\ error = "none" /\ ev = NoEvent /\ window_open = 0

InitAlign ==
    /\ align_in \in [tokens : AlignTokenSeqs, use_space : BOOLEAN,
                     refine : RefineChoices, remove_punctuation : BOOLEAN]
    /\ align_out = NoOutput
    /\ round_half_up = FALSE
    /\ ensure_in = NoSegments /\ ensure_out = NoResult
    /\ split_in = NoTokens /\ split_out = NoSplit
    /\ check_in = NoPair /\ check_out = NoCheck
    /\ AccIdle

NextAlign == AlignCall /\ UNCHANGED <<accVars, ensureVars, splitVars, checkVars>>
SpecAlign == InitAlign /\ [][NextAlign]_vars

InitEnsure ==
    /\ ensure_in \in [segments : EnsureInputs, min_duration : MinDurations]
                        \cup {BoundaryExample, SeparateExample}
    /\ ensure_out = NoResult
    /\ round_half_up \in BOOLEAN
    /\ align_in = NoInput /\ align_out = NoOutput
    /\ split_in = NoTokens /\ split_out = NoSplit
    /\ check_in = NoPair /\ check_out = NoCheck
    /\ AccIdle

NextEnsure == EnsureCall /\ UNCHANGED <<accVars, alignVars, splitVars, checkVars>>
SpecEnsure == InitEnsure /\ [][NextEnsure]_vars

InitSplit ==
    /\ split_in \in [tokens : SplitInputs, use_space : BOOLEAN, remove_punctuation : BOOLEAN]
    /\ split_out = NoSplit
    /\ round_half_up = FALSE
    /\ align_in = NoInput /\ align_out = NoOutput
    /\ ensure_in = NoSegments /\ ensure_out = NoResult
    /\ check_in = NoPair /\ check_out = NoCheck
    /\ AccIdle

NextSplit == SplitCall /\ UNCHANGED <<accVars, alignVars, ensureVars, checkVars>>
SpecSplit == InitSplit /\ [][NextSplit]_vars

InitCompare ==
    /\ check_in \in [token : SegmentTokens, segment_tokens : SegmentTokens]
    /\ check_out = NoCheck
    /\ round_half_up = FALSE
    /\ align_in = NoInput /\ align_out = NoOutput
    /\ ensure_in = NoSegments /\ ensure_out = NoResult
    /\ split_in = NoTokens /\ split_out = NoSplit
    /\ AccIdle

NextCompare == CompareSegment /\ UNCHANGED <<accVars, alignVars, ensureVars, splitVars>>
SpecCompare == InitCompare /\ [][NextCompare]_vars

(***************************************************************************)
(* Properties of the accumulator.                                          *)
(***************************************************************************)

\* A step in which hook_input_tokens or the final flush runs.
EventStep == phase.at = "idle" /\ phase'.at # "idle"

\* The segments finalized so far: every entry of tok_indices but the open
\* buffer (after the final flush the open buffer has been popped).
Finalized(ti, at) == IF at = "done" THEN ti ELSE Front(ti)

\* C1: when the silence filter deletes a window, exactly the segments added
\* since the window opened are dropped from the token lists and from the word
\* lists: what was there when the window opened stays, and nothing else.
C1_DeletionDropsTheWindow ==
    [][ (EventStep /\ ev'.deleted /\ error' = "none") =>
          /\ timestamped_word_segments' =
                 SubSeq(timestamped_word_segments, 1, window_open)
          /\ Finalized(tok_indices', phase'.at) = SubSeq(tok_indices, 1, window_open)
      ]_vars

\* C2: the token lists hold one entry per word list plus the open buffer,
\* and after the final flush has popped the buffer the two collections have
\* the same length, so that the final assertion does not fail.
C2_SegmentCountsAgree ==
    /\ error # "AssertionError: Inconsistent number of segments"
    /\ error = "none" =>
          Len(Finalized(tok_indices, phase.at)) = Len(timestamped_word_segments)

\* C3, as the code decides: on a prompt the buffered tokens are flushed
\* through the alignment exactly when no pair of consecutive timestamps was
\* seen since the previous prompt; otherwise they are discarded and no word
\* list is produced.
C3_PromptFlushesUnlessConsecutiveSeen ==
    [][ (EventStep /\ ev'.kind = "prompt") =>
          /\ ev'.flushed <=> ~saw_consecutive_timestamps
          /\ ev'.discarded <=> saw_consecutive_timestamps
          /\ ev'.discarded => ~ev'.added
          /\ ~saw_consecutive_timestamps'
      ]_vars

\* C3 as stated: on a prompt (after the first window has started, and when
\* the handler returns normally) the buffered tokens are flushed exactly
\* when consecutive timestamps were seen, and discarded otherwise.
C3_PromptFlushesIfConsecutiveSeen ==
    [][ (EventStep /\ ev'.kind = "prompt" /\ has_started /\ error' = "none") =>
          /\ ev'.flushed <=> saw_consecutive_timestamps
          /\ ev'.discarded <=> ~saw_consecutive_timestamps
      ]_vars

\* A prompt has flushed a buffer into a word list, and the run goes on.
C3_PromptFlushed ==
    ev.kind = "prompt" /\ ev.flushed /\ ev.added /\ ~ev.discarded /\ error = "none"

\* C4: on a single-token event the buffer is flushed exactly when the new
\* token and the last buffered token are both timestamps (an empty buffer
\* counts as a non-timestamp); the new token ends up last in the open
\* buffer.
C4_SingleTokenFlush ==
    [][ (EventStep /\ ev'.kind = "single") =>
          /\ ev'.flushed <=>
                /\ ev'.token >= timestamp_begin
                /\ Last(tok_indices) # <<>>
                /\ Last(Last(tok_indices)) >= timestamp_begin
          /\ ~ev'.discarded
          /\ error' = "none" =>
                Last(tok_indices') # <<>> /\ Last(Last(tok_indices')) = ev'.token
      ]_vars

\* A single timestamp has flushed the buffer into a word list and sits at
\* the end of the new open buffer.
C4_SingleTokenFlushed ==
    /\ ev.kind = "single" /\ ev.flushed /\ ev.added /\ error = "none"
    /\ phase.at = "attn"
    /\ Last(Last(tok_indices)) = ev.token

\* The average log-probability of the tokens chosen in the window exceeds
\* the logprob_threshold.
WindowConfident ==
    LET chosen == chunk_tokens_nosot \o <<token_eot>>
    IN  /\ logprob_threshold # None
        /\ Sum([k \in 1..Len(chosen) |-> chunk_logprobs[k][chosen[k]]])
              > logprob_threshold[1] * Len(chosen)

\* The window's no-speech probability exceeds the no_speech_threshold.
WindowSilent ==
    /\ no_speech_threshold # None /\ no_speech_prob # None
    /\ no_speech_prob[1] > no_speech_threshold[1]

\* C5: when a window closes, its segments are deleted exactly when its
\* no-speech probability exceeds the no_speech_threshold and it is not the
\* case that a logprob_threshold is configured and exceeded by the window's
\* average log-probability.
C5_DeletedIffSilentAndNotConfident ==
    [][ (EventStep /\ ev'.filter /\ no_speech_threshold # None) =>
          (ev'.deleted <=> (WindowSilent /\ ~WindowConfident))
      ]_vars

\* C6: with a no_speech_threshold and no logprob_threshold, a window whose
\* no-speech probability exceeds the threshold is deleted, and the handler
\* returns normally.
C6_NoLogprobThresholdDeletes ==
    [][ (EventStep /\ ev'.filter /\ logprob_threshold = None /\ WindowSilent) =>
          (ev'.deleted /\ error' = "none")
      ]_vars

(***************************************************************************)
(* Properties of perform_word_alignment.                                   *)
(***************************************************************************)

\* The first token is a timestamp marker and the end marker is missing.
MissingEndMarker(tokens) ==
    /\ tokens # <<>>
    /\ tokens[1] >= timestamp_begin
    /\ Len(tokens) = 1 \/ Last(tokens) < timestamp_begin

\* C7: for a token sequence that starts with a timestamp marker and lacks
\* the end marker, the alignment returns exactly one word, with empty text,
\* whose start and end both equal the time of the start marker.
C7_PlaceholderAtStartMarker ==
    (align_out # NoOutput /\ MissingEndMarker(align_in.tokens)) =>
        /\ align_out.error = "none"
        /\ Len(align_out.words) = 1
        /\ align_out.words[1].text = <<>>
        /\ align_out.words[1].start =
               (align_in.tokens[1] - timestamp_begin) * AUDIO_TIME_PER_TOKEN
        /\ align_out.words[1].end = align_out.words[1].start

\* C8: every word of every word list the alignment returns has
\* start <= end.
C8_WordStartBeforeEnd ==
    align_out.error = "none" =>
        \A k \in 1..Len(align_out.words) :
            align_out.words[k].start <= align_out.words[k].end

(***************************************************************************)
(* Properties of ensure_increasing_positions.                              *)
(***************************************************************************)

\* C9: when ensure_increasing_positions returns, every word lasts at least
\* min_duration.
C9_MinimumDuration ==
    ensure_out.error = "none" =>
        \A k \in 1..Len(ensure_out.segments) :
            ensure_out.segments[k].end - ensure_out.segments[k].start
                >= ensure_in.min_duration

\* C10: when ensure_increasing_positions returns, no start or end is
\* negative and every word starts at or after the end of the word before
\* it.
C10_IncreasingNonNegative ==
    ensure_out.error = "none" =>
        /\ \A k \in 1..Len(ensure_out.segments) :
              ensure_out.segments[k].start >= 0 /\ ensure_out.segments[k].end >= 0
        /\ \A k \in 1..(Len(ensure_out.segments) - 1) :
              ensure_out.segments[k + 1].start >= ensure_out.segments[k].end

\* ensure_increasing_positions has returned on a list whose second word
\* started before the end of the first, and has pulled that end back.
C10_OverlapResolved ==
    /\ ensure_out.error = "none"
    /\ Len(ensure_in.segments) = 2
    /\ ensure_in.segments[1].start >= 0
    /\ ensure_in.segments[2].start < ensure_in.segments[1].end
    /\ ensure_out.segments[1].end < ensure_in.segments[1].end

\* No time of the word list handed to ensure_increasing_positions is
\* negative.
NonNegativeInput ==
    \A k \in 1..Len(ensure_in.segments) :
        ensure_in.segments[k].start >= 0 /\ ensure_in.segments[k].end >= 0

\* C11: on a word list without negative times, and for every minimum
\* duration >= 0, neither assertion of the final pass of
\* ensure_increasing_positions fails.
C11_FinalAssertionsHold ==
    NonNegativeInput =>
        ensure_out.error \notin
            {"AssertionError: segment coming before the previous finishes",
             "AssertionError: segment with end <= start"}

(***************************************************************************)
(* Further properties of the accumulator.                                  *)
(***************************************************************************)

\* C12: between two forward passes of the decoder, and so at every flush,
\* every layer buffers as many attention entries as the open buffer holds
\* tokens (one less while the attention hooks of the pass are still to
\* come), and the alignment never finds weights of the wrong shape.
C12_TokensMatchAttention ==
    /\ error # "AssertionError: Attention weights have wrong shape"
    /\ (error = "none" /\ phase.at \in {"idle", "logits"}) =>
          \A l \in 1..NumLayers : Len(tok_attweights[l]) = Len(Last(tok_indices))
    /\ (error = "none" /\ phase.at = "attn") =>
          \A l \in 1..NumLayers : Len(tok_attweights[l]) + 1 = Len(Last(tok_indices))

\* A single-token flush has carried the last token and its attention entry
\* over, and the pass that followed is complete.
C12_AnchorCarriedOver ==
    /\ error = "none" /\ phase.at = "idle"
    /\ ev.kind = "single" /\ ev.flushed /\ ev.added
    /\ Len(Last(tok_indices)) = 2
    /\ \A l \in 1..NumLayers : Len(tok_attweights[l]) = 2

(***************************************************************************)
(* Properties of the word segmenter.                                       *)
(***************************************************************************)

\* The number of entries of all the spans together.
SpanLength(word_tokens) == Sum([k \in 1..Len(word_tokens) |-> Len(word_tokens[k])])

\* C13: the spans the segmenter returns cover the token sequence exactly,
\* token for token, so that together they have as many entries as there are
\* tokens (the count that indexes the jump boundaries).
C13_SpansCoverTokens ==
    split_out.error = "none" =>
        SpanLength(split_out.word_tokens) = Len(split_in.tokens)

(***************************************************************************)
(* Further properties of perform_word_alignment.                           *)
(***************************************************************************)

\* The frames of the refined window of a token sequence that starts and
\* ends with a timestamp marker.
RefinedStart(in) ==
    IF in.refine > 0 THEN Max(in.tokens[1] - timestamp_begin - in.refine, 0)
    ELSE in.tokens[1] - timestamp_begin
RefinedEnd(in) ==
    IF in.refine > 0 THEN Min(Last(in.tokens) - timestamp_begin + in.refine, MaxFrame)
    ELSE Last(in.tokens) - timestamp_begin

\* The segment has both markers, a window of at least one frame, and more
\* tokens than the window has frames.
TooManyTokens(in) ==
    /\ Len(in.tokens) > 1
    /\ in.tokens[1] >= timestamp_begin /\ Last(in.tokens) >= timestamp_begin
    /\ RefinedEnd(in) > RefinedStart(in)
    /\ Len(in.tokens) > RefinedEnd(in) - RefinedStart(in)

\* C14: a segment with more tokens than frames is aligned again on the
\* truncated tokens and weights, and a word list is returned without error.
C14_TooManyTokensRetried ==
    (align_out # NoOutput /\ TooManyTokens(align_in)) => align_out.error = "none"

\* C15: a token sequence that is empty, or whose first token is not a
\* timestamp marker, makes the alignment raise and return no words, also
\* when its end marker is missing.
C15_MissingStartIsFatal ==
    /\ (align_out # NoOutput /\ align_in.tokens = <<>>) =>
          /\ align_out.error = "AssertionError: Got unexpected empty sequence of tokens"
          /\ align_out.words = <<>>
    /\ (align_out # NoOutput /\ align_in.tokens # <<>>
          /\ align_in.tokens[1] < timestamp_begin) =>
          /\ align_out.error = "RuntimeError: Missing start token"
          /\ align_out.words = <<>>

\* The alignment has raised on a sequence that lacks both its start marker
\* and its end marker.
C15_BothMarkersMissing ==
    /\ align_in.tokens # <<>>
    /\ align_in.tokens[1] < timestamp_begin
    /\ Last(align_in.tokens) < timestamp_begin
    /\ align_out.error = "RuntimeError: Missing start token"

\* The open buffer holds, after its anchor, a segment of several tokens
\* whose start and end markers are the same timestamp.
IdenticalMarkers(buf) ==
    Len(buf) >= 3 /\ buf[2] >= timestamp_begin /\ Last(buf) = buf[2]

\* C16: with a refinement margin of zero, the flush of a segment whose
\* start and end markers are identical gets an empty word list from the
\* alignment, without error, and records nothing: unless the silence
\* filter deletes in the same call, the word lists and the finalized token
\* lists are what they were.
C16_EmptySegmentAddsNothing ==
    [][ (EventStep /\ ev'.flushed /\ refine_whisper_precision_nsamples = 0
           /\ IdenticalMarkers(Last(tok_indices))) =>
          /\ ev'.returned /\ ~ev'.added
          /\ (error' = "none" /\ ~ev'.deleted) =>
                /\ timestamped_word_segments' = timestamped_word_segments
                /\ Finalized(tok_indices', phase'.at) = Front(tok_indices)
      ]_vars

\* The window <|0.00|>, " a", <|0.00|>, <|0.00|>: its fourth token has
\* flushed the first three, which gave no word.
C16_EmptySegmentFlushed ==
    /\ refine_whisper_precision_nsamples = 0
    /\ chunk_tokens_nosot = <<timestamp_begin, TokSpaceWord, timestamp_begin, timestamp_begin>>
    /\ ev.kind = "single" /\ ev.flushed /\ ev.returned /\ ~ev.added
    /\ error = "none"

\* What the handler appends to the open buffer after may_flush_segment:
\* the last token it was passed, or nothing at the end of the run.
Appended(e) == IF e.kind = "finalize" THEN <<>> ELSE <<e.token>>

\* C17: on every flush for which the alignment returned, and unless the
\* silence filter deletes in the same call: a non-empty word list is
\* recorded, the flushed buffer without its anchor becomes the last
\* finalized token list and a new buffer is opened, which after a
\* single-token boundary starts with the last token of the flushed segment
\* and keeps that token's attention entry in every layer; an empty word
\* list records nothing and leaves the buffer and the attention buffers
\* cleared.
C17_FlushOpensOrClears ==
    [][ (EventStep /\ ev'.flushed /\ ev'.returned /\ ~ev'.deleted /\ error' = "none") =>
          LET n == Len(tok_indices)
              buf == Last(tok_indices)
              fin == Finalized(tok_indices', phase'.at)
              open == IF phase'.at = "done" THEN <<>> ELSE Last(tok_indices')
          IN  IF ev'.added
              THEN /\ Len(timestamped_word_segments') = Len(timestamped_word_segments) + 1
                   /\ Last(timestamped_word_segments') # <<>>
                   /\ Len(fin) = n
                   /\ fin[n] = Tail(buf)
                   /\ IF ev'.kind = "single"
                      THEN /\ open = <<Last(buf)>> \o Appended(ev')
                           /\ \A l \in 1..NumLayers :
                                 tok_attweights'[l] = <<Last(tok_attweights[l])>>
                      ELSE /\ open = Appended(ev')
                           /\ tok_attweights' = EmptyAttention
              ELSE /\ timestamped_word_segments' = timestamped_word_segments
                   /\ fin = Front(tok_indices)
                   /\ open = Appended(ev')
                   /\ tok_attweights' = EmptyAttention
      ]_vars

\* A single-token boundary has flushed a segment that gave words: the new
\* buffer holds the end marker of that segment and the token just passed.
C17_LastTokenCarried ==
    /\ ev.kind = "single" /\ ev.flushed /\ ev.added /\ error = "none"
    /\ Len(tok_indices) >= 2
    /\ Last(tok_indices) = <<Last(tok_indices[Len(tok_indices) - 1]), ev.token>>
    /\ \A l \in 1..NumLayers : Len(tok_attweights[l]) = 1

\* The tokens between the first and the last token that is neither a
\* control token nor a timestamp, both included.
Stripped(tokens) ==
    LET text == {i \in 1..Len(tokens) : tokens[i] < token_special_idx}
    IN  IF text = {} THEN <<>>
        ELSE SubSeq(tokens, CHOOSE i \in text : \A j \in text : i <= j,
                            CHOOSE i \in text : \A j \in text : i >= j)

StrictPrefix(a, b) == Len(a) < Len(b) /\ a = SubSeq(b, 1, Len(a))

\* C18: a segment passes the comparison exactly when, once the control and
\* timestamp tokens at both ends are stripped, the collected list and the
\* reported list are identical or the collected one is a strict prefix of
\* the reported one; it passes silently exactly when they are identical.
C18_ContinuesIffPrefix ==
    check_out # NoCheck =>
        LET a == Stripped(check_in.token)
            b == Stripped(check_in.segment_tokens)
        IN  /\ (check_out.error = "none") <=> (a = b \/ StrictPrefix(a, b))
            /\ check_out.error # "none" =>
                  check_out.error = "AssertionError: Got inconsistent segments"
            /\ check_out.warned <=> (a # b)

\* A segment whose collected tokens, stripped at both ends, are a strict
\* non-empty prefix of the reported ones was accepted with a warning.
C18_StrictPrefixWarned ==
    /\ check_out.error = "none" /\ check_out.warned
    /\ Stripped(check_in.token) # <<>>
    /\ Stripped(check_in.token) # check_in.token
    /\ StrictPrefix(Stripped(check_in.token), Stripped(check_in.segment_tokens))

\* C19: ensure_increasing_positions returns or raises after at most two
\* runs of its first loop: the run that follows a run with a backward
\* adjustment makes no backward adjustment.
C19_AtMostOneRerun ==
    ensure_out # NoResult => ensure_out.passes <= 2

\* A call that re-ran its first loop and returned the words.
C19_RerunOnce ==
    ensure_out.passes = 2 /\ ensure_out.error = "none"

\* The centisecond values nearest to the middle of a and b.
RoundedMidpoints(a, b) ==
    {m \in (Min(a, b) - Centisecond)..(Max(a, b) + Centisecond) :
        /\ m % Centisecond = 0
        /\ 2 * m - (a + b) \in (-Centisecond)..Centisecond}

\* The iterations of the first loop of the call that found the word
\* starting before the end of the previous one.
OverlapSteps ==
    {i \in 2..(Len(ensure_out.first_pass) - 1) :
        /\ ensure_out.first_pass[i].error = "none"
        /\ ensure_out.first_pass[i].segments[i].start < ensure_out.first_pass[i].previous_end}

\* C20: in a run of the first loop, a word that starts before the running
\* end of the previous word gets as its start b either the midpoint of that
\* end and its old start, rounded to centiseconds, which also becomes the
\* end of the previous word, or, when that midpoint is less than the start
\* of the previous word plus min_duration, the end of the previous word,
\* which is left as it was; either way b lies between the old start of the
\* word and the old end of the previous word and the two words no longer
\* overlap.  For [0.0, 2.0] and [1.5, 3.0] the boundary is at most 1.75.
C20_BoundaryAtMidpointOrPreviousEnd ==
    /\ \A i \in OverlapSteps :
          LET before == ensure_out.first_pass[i]
              after == ensure_out.first_pass[i + 1]
              previous == before.segments[i - 1]
              b == after.segments[i].start
              mids == RoundedMidpoints(before.previous_end, before.segments[i].start)
          IN  /\ before.previous_end = previous.end
              /\ \/ /\ b \in mids
                    /\ ~(b < previous.start + ensure_in.min_duration)
                    /\ after.segments[i - 1] = [previous EXCEPT !.end = b]
                 \/ /\ \E m \in mids : m < previous.start + ensure_in.min_duration
                    /\ b = previous.end
                    /\ after.segments[i - 1] = previous
              /\ before.segments[i].start <= b /\ b <= previous.end
              /\ after.segments[i - 1].end <= after.segments[i].start
    /\ (ensure_in = BoundaryExample /\ ensure_out # NoResult) =>
          /\ ensure_out.error = "none"
          /\ ensure_out.segments[2].start <= 175 * Centisecond
          /\ ensure_out.segments[1].end <= ensure_out.segments[2].start

\* A call whose first loop moved the boundary of two overlapping words to
\* a point strictly between the start of the second and the end of the
\* first.
C20_BoundaryMoved ==
    NonNegativeInput /\ ensure_out.error = "none" /\ \E i \in OverlapSteps :
        /\ ensure_out.first_pass[i + 1].segments[i].start > ensure_out.first_pass[i].segments[i].start
        /\ ensure_out.first_pass[i + 1].segments[i - 1].end < ensure_out.first_pass[i].segments[i - 1].end

\* Both timestamp markers of the aligned segment are present.
BothMarkers ==
    /\ Len(align_in.tokens) > 1
    /\ align_in.tokens[1] >= timestamp_begin
    /\ Last(align_in.tokens) >= timestamp_begin

\* The frame window of the aligned segment after refinement: the start
\* marker lowered by the margin and clamped at 0, the end marker raised by
\* the margin and clamped at the largest frame index.
WindowStart == Max(align_in.tokens[1] - timestamp_begin - align_in.refine, 0)
WindowEnd == Min(Last(align_in.tokens) - timestamp_begin + align_in.refine, MaxFrame)

\* C21: with both markers present, the alignment raises exactly when the
\* refined frame window has end <= start, but for identical markers with a
\* margin of zero, which give an empty word list; identical markers with a
\* positive margin never give the degenerate-range error.
C21_FatalIffDegenerateWindow ==
    (align_out # NoOutput /\ BothMarkers) =>
        LET identical == align_in.tokens[1] = Last(align_in.tokens)
        IN  /\ (identical /\ align_in.refine = 0) =>
                  (align_out.error = "none" /\ align_out.words = <<>>)
            /\ ~(identical /\ align_in.refine = 0) =>
                  ((align_out.error # "none") <=> (WindowEnd <= WindowStart))
            /\ WindowEnd <= WindowStart /\ ~(identical /\ align_in.refine = 0) =>
                  align_out.error = "RuntimeError: Got segment with null or negative duration"
            /\ (identical /\ align_in.refine > 0) =>
                  align_out.error # "RuntimeError: Got segment with null or negative duration"

\* C22: on a prompt and at the final flush the buffer is flushed or
\* discarded first, then the start index of the closing window is read and
\* replaced by the number of segments finalized so far, and then the
\* silence filter runs: a segment added by the closing flush is gone when
\* the filter deletes the window.  The filter runs on no single-token
\* event and not before the first prompt.
C22_ClosingFlushBelongsToWindow ==
    [][ EventStep =>
          /\ (ev'.kind # "single" /\ error' = "none") =>
                index_begin_30sec_chunck' =
                    Len(tok_indices) - 1 + (IF ev'.added THEN 1 ELSE 0)
          /\ ev'.filter => (ev'.kind # "single" /\ has_started)
          /\ (ev'.deleted /\ ev'.added /\ error' = "none") =>
                Len(timestamped_word_segments') <= Len(timestamped_word_segments)
      ]_vars

\* C23: without a no_speech_threshold no step removes a finalized segment:
\* the word lists and the finalized token lists keep what they hold and
\* get one more entry each exactly in the steps whose flush gave words.
C23_SegmentsOnlyGrow ==
    [][ no_speech_threshold = None =>
          LET grown == IF EventStep /\ ev'.added THEN 1 ELSE 0
              before == Finalized(tok_indices, phase.at)
              after == Finalized(tok_indices', phase'.at)
          IN  /\ ~ev'.deleted
              /\ Len(timestamped_word_segments') = Len(timestamped_word_segments) + grown
              /\ SubSeq(timestamped_word_segments', 1, Len(timestamped_word_segments))
                    = timestamped_word_segments
              /\ error' = "none" =>
                    /\ Len(after) = Len(before) + grown
                    /\ SubSeq(after, 1, Len(before)) = before
      ]_vars

\* Without a no_speech_threshold, a second window has closed on a prompt
\* and the segment of the first is still there.
C23_SegmentKeptAcrossWindows ==
    /\ no_speech_threshold = None /\ error = "none"
    /\ ev.kind = "prompt" /\ ev.closed
    /\ Len(timestamped_word_segments) >= 1

\* The alignment computed the times of the words from a path.
Aligned == align_out.error = "none" /\ align_out.times.jump_times # <<>>

\* C24: word k of an aligned segment starts at the jump of the token at
\* the cumulative token count of the words before it and ends where word
\* k + 1 starts, the last word at the end of the segment; so the
\* boundaries are non-decreasing, and the cumulative counts, which end at
\* the number of tokens, index the jump times within their length, the
\* number of tokens plus one.
C24_WordsAtJumpBoundaries ==
    Aligned =>
        LET t == align_out.times
            n == Len(t.begin_times0)
            wb == t.word_boundaries
        IN  /\ Len(t.jump_times) = Len(align_in.tokens) + 1
            /\ Len(wb) = n + 1 /\ Len(t.end_times0) = n
            /\ \A k \in 1..(n + 1) : wb[k] + 1 <= Len(t.jump_times)
            /\ \A k \in 1..n : /\ t.begin_times0[k] = t.jump_times[wb[k] + 1]
                               /\ t.end_times0[k] = t.jump_times[wb[k + 1] + 1]
                               /\ t.begin_times0[k] <= t.end_times0[k]
            /\ \A k \in 1..(n - 1) : t.end_times0[k] = t.begin_times0[k + 1]
            /\ wb[n + 1] = Len(align_in.tokens)
            /\ t.end_times0[n] = Last(t.jump_times)

\* C25: with a margin of zero the first word after the start marker
\* starts at the time of the start marker and the last word before the end
\* marker ends at the time of the end marker; with a positive margin the
\* two boundaries are those of the path, and every time of a returned word
\* lies in the refined window.
C25_EdgesAtMarkersOrFromPath ==
    Aligned =>
        LET t == align_out.times
            n == Len(t.begin_times)
            start_marker == (align_in.tokens[1] - timestamp_begin) * AUDIO_TIME_PER_TOKEN
            end_marker == (Last(align_in.tokens) - timestamp_begin) * AUDIO_TIME_PER_TOKEN
        IN  IF align_in.refine = 0
            THEN /\ n >= 2
                 /\ t.begin_times[2] + start_marker = start_marker
                 /\ t.end_times[n - 1] + start_marker = end_marker
            ELSE /\ t.begin_times = t.begin_times0
                 /\ t.end_times = t.end_times0
                 /\ \A k \in 1..Len(align_out.words) :
                       /\ WindowStart * AUDIO_TIME_PER_TOKEN <= align_out.words[k].start
                       /\ align_out.words[k].start <= align_out.words[k].end
                       /\ align_out.words[k].end <= WindowEnd * AUDIO_TIME_PER_TOKEN

\* A text without its punctuation characters.
WithoutPunctuation(text) == SelectSeq(text, LAMBDA c : ~in_punctuation(<<c>>))

\* C26: in unicode mode no word after the first begins with a punctuation
\* unit, and a first word that does is the placeholder, made of
\* punctuation only; the text of a word holds the punctuation of its units
\* unless remove_punctuation_from_words is set, and the flag changes
\* nothing else: the same number of words, the same spans.
C26_PunctuationJoinsPreviousWord ==
    (split_out # NoSplit /\ ~split_in.use_space) =>
        LET other == split_tokens_on_unicode(split_in.tokens, ~split_in.remove_punctuation)
            kept == IF split_in.remove_punctuation THEN other ELSE split_out
            removed == IF split_in.remove_punctuation THEN split_out ELSE other
            spans == split_out.word_tokens
            n == Len(split_out.words)
        IN  /\ split_out.error = "none"
            /\ Len(spans) = n
            /\ \A k \in 2..n : spans[k] # <<>> /\ ~in_punctuation(spans[k][1])
            /\ (n >= 1 /\ in_punctuation(spans[1][1])) =>
                  \A j \in 1..Len(spans[1]) : in_punctuation(spans[1][j])
            /\ Len(other.words) = n
            /\ other.word_tokens = spans
            /\ \A k \in 1..n :
                  /\ removed.words[k] = WithoutPunctuation(kept.words[k])
                  /\ Len(kept.words[k]) - Len(removed.words[k])
                        = Cardinality({j \in 1..Len(spans[k]) : spans[k][j] = <<",">>})

\* In unicode mode with punctuation removal, a comma that follows a word
\* is in that word's span and not in its text.
C26_PunctuationAttributed ==
    /\ ~split_in.use_space /\ split_in.remove_punctuation
    /\ split_out.error = "none"
    /\ \E k \in 1..Len(split_out.words) :
          /\ Len(split_out.word_tokens[k]) >= 2
          /\ ~in_punctuation(split_out.word_tokens[k][1])
          /\ split_out.word_tokens[k][2] = <<",">>
          /\ split_out.words[k] = WithoutPunctuation(split_out.words[k])

\* C27: the path of an alignment has one point per frame of the window; it
\* starts at the first token and ends at the last one, and from a frame to
\* the next the token index stays or advances by one.  So there is one
\* jump per token, the jump of a token is the first frame of that token,
\* the first jump is frame 0 and the jumps are strictly increasing.
C27_PathMonotoneOneJumpPerToken ==
    Aligned =>
        LET p == align_out.times.index1s
            jt == align_out.times.jump_times
            num_tokens == Len(align_in.tokens)
            num_frames == RefinedEnd(align_in) - RefinedStart(align_in)
        IN  /\ Len(p) = num_frames
            /\ p[1] = 0 /\ p[num_frames] = num_tokens - 1
            /\ \A f \in 2..num_frames : p[f] - p[f - 1] \in {0, 1}
            /\ Len(jt) = num_tokens + 1
            /\ jt[1] = 0
            /\ \A i \in 1..num_tokens :
                  /\ jt[i] < jt[i + 1]
                  /\ \E f \in 1..num_frames :
                        /\ jt[i] = (f - 1) * AUDIO_TIME_PER_TOKEN
                        /\ p[f] = i - 1
                        /\ \A g \in 1..(f - 1) : p[g] < i - 1

\* An alignment in which a token holds several frames: the path stayed on
\* a token from one frame to the next.
C27_TokenHoldsSeveralFrames ==
    /\ Aligned
    /\ \E f \in 2..Len(align_out.times.index1s) :
          align_out.times.index1s[f] = align_out.times.index1s[f - 1]
    /\ \E f \in 2..Len(align_out.times.index1s) :
          align_out.times.index1s[f] = align_out.times.index1s[f - 1] + 1

\* The open window has sampled tokens and the first of them is a timestamp.
WellFormedWindow ==
    chunk_tokens_nosot # <<>> /\ chunk_tokens_nosot[1] >= timestamp_begin

\* C28: in a window whose first sampled token is a timestamp, every flush
\* hands the alignment the buffer without its anchor, and that sequence
\* starts with a timestamp: the flush does not end in the error of a
\* missing start token, nor in any other error of an empty sequence.
C28_FlushStartsWithTimestamp ==
    [][ (EventStep /\ ev'.flushed /\ WellFormedWindow) =>
          /\ Len(Last(tok_indices)) >= 2
          /\ Last(tok_indices)[2] >= timestamp_begin
          /\ error' # "RuntimeError: Missing start token"
      ]_vars

\* C29: once a prompt event has been handled, the recorded start index of the
\* window it opens is the number of finalized segments, also when the event
\* deleted the segments of the window it closed.
C29_StartIndexCountsFinalized ==
    [][ (EventStep /\ ev'.kind = "prompt" /\ error' = "none") =>
          index_begin_30sec_chunck' = Len(tok_indices') - 1
      ]_vars

\* C30: with a no_speech_threshold, whenever the silence filter is evaluated
\* (a window closes at a prompt event or at finalize, after decoding has
\* started) a no-speech probability is recorded and the comparison does not
\* fail; the probability is set only by the logits hook of a prompt step, at
\* the position of the sot marker, is left alone by single-token steps, and
\* is cleared whenever a window closes.
C30_NoSpeechProbOfTheWindow ==
    [][ /\ (EventStep /\ ev'.filter /\ no_speech_threshold # None) =>
              /\ no_speech_prob # None
              /\ error' # "TypeError: '>' not supported between NoneType and float"
        /\ (no_speech_prob' # no_speech_prob /\ no_speech_prob' # None) =>
              phase.at = "logits" /\ ev.kind = "prompt" /\ sot_index # None
        /\ ((EventStep /\ ev'.kind = "single") \/ (phase.at = "logits" /\ ev.kind = "single")) =>
              no_speech_prob' = no_speech_prob
        /\ (EventStep /\ ev'.closed) => no_speech_prob' = None
      ]_vars

\* With a no_speech_threshold, a prompt event has closed a window: the
\* filter read the probability recorded for it and the counters were reset.
C30_FilterEvaluatedAtPrompt ==
    /\ no_speech_threshold # None /\ error = "none"
    /\ phase.at = "attn" /\ ev.kind = "prompt"
    /\ ev.filter /\ ev.closed
    /\ no_speech_prob = None

\* ensure_increasing_positions applied, with the same min_duration, to the
\* word list the call returned.
Reapplied == ensure_increasing_positions(ensure_out.segments, ensure_in.min_duration)

\* C31: ensure_increasing_positions is idempotent: applied to a word list it
\* has returned, with the same min_duration, it returns without error and
\* changes no start and no end.
C31_EnsureIdempotent ==
    (ensure_out # NoResult /\ ensure_out.error = "none") =>
        /\ Reapplied.error = "none"
        /\ Reapplied.segments = ensure_out.segments

\* The words of the list keep to their own time: no word starts before the
\* origin or before the end of the word before it, and every word lasts
\* longer than min_duration.
NonOverlapping(segments) ==
    \A i \in 1..Len(segments) :
        segments[i].start >= (IF i = 1 THEN 0 ELSE segments[i - 1].end)
LongerThan(segments, min_duration) ==
    \A i \in 1..Len(segments) : segments[i].end - segments[i].start > min_duration

\* C32: ensure_increasing_positions changes only starts and ends: whether it
\* returns or raises, it leaves as many words as it was given, in the same
\* order and with the same texts, and no word starts earlier than it did; a
\* list of words that do not overlap and last longer than min_duration is
\* returned unchanged.
C32_OnlyTimesChangeAndStartsNeverEarlier ==
    ensure_out # NoResult =>
        /\ Len(ensure_out.segments) = Len(ensure_in.segments)
        /\ \A i \in 1..Len(ensure_in.segments) :
              /\ DOMAIN ensure_out.segments[i] = DOMAIN ensure_in.segments[i]
              /\ ensure_out.segments[i].text = ensure_in.segments[i].text
              /\ ensure_out.segments[i].start >= ensure_in.segments[i].start
        /\ (NonOverlapping(ensure_in.segments)
              /\ LongerThan(ensure_in.segments, ensure_in.min_duration)) =>
                 /\ ensure_out.error = "none"
                 /\ ensure_out.segments = ensure_in.segments

\* The call returned two words after moving the start of the second one,
\* which overlapped the first, to a later time.
C32_OverlappingStartMovedLater ==
    /\ ensure_out # NoResult /\ ensure_out.error = "none"
    /\ Len(ensure_in.segments) = 2
    /\ ensure_in.segments[2].start < ensure_in.segments[1].end
    /\ ensure_out.segments[2].start > ensure_in.segments[2].start
    /\ ensure_out.segments[2].text = 2

\* A window closes in the step: its statistics hold one vector of
\* log-probabilities more than single-token events, and the step resets
\* them without failing on the length assertion of the silence filter.
OneVectorPerStep ==
    /\ Len(chunk_logprobs) = Len(chunk_tokens_nosot) + 1
    /\ error' # "AssertionError: len(chunk_logprobs) != len(chunck_indices)"
    /\ ev'.closed => (chunk_logprobs' = <<>> /\ chunk_tokens_nosot' = <<>>)

\* C33 as stated: at every window close after decoding has started, the
\* window has one vector of log-probabilities per decoding step, the
\* single-token events plus one.
C33_OneVectorPerStepAtEveryClose ==
    [][ (EventStep /\ ev'.filter) => OneVectorPerStep ]_vars

\* C33: with a no_speech_threshold, at every window close after decoding has
\* started the window has one vector of log-probabilities per decoding
\* step, the single-token events plus one, the statistics are reset, and the
\* length assertion of the silence filter does not fail.
C33_OneVectorPerStepWithThreshold ==
    [][ (EventStep /\ ev'.filter /\ no_speech_threshold # None) => OneVectorPerStep ]_vars

\* With both thresholds, a window with single-token events has closed and
\* the filter, past its length assertion, deleted the segments of the window.
C33_LengthAssertionPassed ==
    /\ no_speech_threshold # None /\ logprob_threshold # None
    /\ error = "none" /\ ev.filter /\ ev.closed /\ ev.deleted
    /\ chunk_logprobs = <<>> /\ chunk_tokens_nosot = <<>>
    /\ num_inference_steps >= 3

====
